---- MODULE Spec2Model ----
(***************************************************************************)
(* Transcript normalization core of agent_replay (parser.py): format       *)
(* detection, the three dialect normalizers, sub-agent merge, token        *)
(* accounting and the (path, mtime) parse cache; and the live feed of one  *)
(* session that server.py builds on parse().                               *)
(*                                                                         *)
(* A transcript line is a record with one field per JSON key the parser    *)
(* reads.  Timestamps are naturals standing for the dialect's sortable     *)
(* strings (0 is the empty string "", the default of a missing key).       *)
(***************************************************************************)
EXTENDS Integers, Sequences, FiniteSets, TLC

VARIABLES
    file,                   \* SpecParse: the transcript handed to parse()
    pc,                     \* SpecParse: position of the running parse() call
    fmt,                    \* SpecParse: result of auto_detect
    cursor,                 \* SpecParse: <<file index, next record index>>
    session,                \* SpecParse: the Session under construction
    seen_request_ids,       \* SpecParse: local set of _process_lines
    request_tokens_assigned,\* SpecParse: local set of _process_lines
    ledger,                 \* SpecParse: history of the additions to Agent counters
    fs,                     \* SpecCache: path -> the file on disk
    cache,                  \* SpecCache: _parse_cache, in dict (insertion) order
    last,                   \* SpecCache: the last operation and its outcome
    prev,                   \* SpecCache: path -> the file as the previous parse() of it saw it
    nInserted,              \* SpecCache: number of cache insertions so far
    nCalls,                 \* SpecCache: number of operations so far
    callers,                \* SpecThreads: thread -> the locals of its parse() call
    feed                    \* SpecFeed: the locals of ws_session and what it sent

vars == <<file, pc, fmt, cursor, session, seen_request_ids,
          request_tokens_assigned, ledger, fs, cache, last, prev, nInserted,
          nCalls, callers, feed>>

parseVars == <<file, pc, fmt, cursor, session, seen_request_ids,
               request_tokens_assigned, ledger>>
cacheVars == <<fs, cache, last, prev, nInserted, nCalls>>
threadVars == <<callers>>
feedVars == <<feed>>

-----------------------------------------------------------------------------
(* Bounds of the model *)

MaxLines == 2        \* lines per generated transcript
MaxSubFiles == 2     \* agent-*.jsonl files in a subagents directory
MaxMsgs == 2         \* messages of a generated Gemini JSON document
MaxCalls == 5        \* operations (parse, write, delete) of a cache run

(* Program constants *)

_PARSE_CACHE_MAX == 64

AGENT_COLORS == <<"magenta", "yellow", "green", "red", "blue", "white">>

-----------------------------------------------------------------------------
(* JSON values read by the parser *)

\* A content block / part.  text: the block has non-blank text.  size: the
\* length of the block's payload as the parser renders it (the tool input,
\* the result text, json.dumps of the call's args or of the response).
B0 == [type |-> "", text |-> FALSE, name |-> "", is_error |-> FALSE,
       fc |-> "", fr |-> FALSE, size |-> 0]

\* One line of a file.  json: "dict" (a JSON object), "list" (valid JSON that
\* is not an object), "bad" (blank or not JSON).
R0 == [json |-> "dict", type |-> "", ts |-> 0, sessionId |-> "",
       requestId |-> "", agentId |-> "", usage |-> <<0, 0, 0>>,
       role |-> "", hasContent |-> FALSE, mcontent |-> "list",
       blocks |-> <<>>, item |-> "", irole |-> "", name |-> "",
       ptype |-> "", startTime |-> 0, hasMessages |-> FALSE,
       messages |-> <<>>, size |-> 0]

BadLine == [R0 EXCEPT !.json = "bad"]
ListLine == [R0 EXCEPT !.json = "list"]

\* Timestamps of generated records (0 = the key is missing).
TS == {1, 2, 3}

SeqsUpTo(S, n) == UNION {[1..k -> S] : k \in 0..n}

-----------------------------------------------------------------------------
(* Record Reader *)

\* _read_jsonl: every non-blank line that json.loads accepts, in file order.
_read_jsonl(lines) == SelectSeq(lines, LAMBDA l : l.json # "bad")

\* json.load of the whole file: one JSON value, else JSONDecodeError.
json_load(lines) ==
    IF Len(lines) = 1 /\ lines[1].json # "bad"
    THEN [ok |-> TRUE, data |-> lines[1]]
    ELSE [ok |-> FALSE, data |-> R0]

-----------------------------------------------------------------------------
(* Format Detector *)

\* The marker tests applied to one decoded line (a dict); "" = no match.
detect_line(rec) ==
    IF rec.type = "file-history-snapshot" THEN "claude_code"
    ELSE IF rec.sessionId # "" /\ rec.type \in {"user", "assistant", "progress"}
    THEN "claude_code"
    ELSE IF rec.type \in {"session_meta", "response_item", "event_msg"}
    THEN "codex"
    ELSE IF rec.type = "message" /\ rec.role # "" THEN "codex"
    ELSE IF rec.type = "session_metadata" THEN "gemini"
    ELSE IF rec.type \in {"user", "gemini"} /\ rec.hasContent
            /\ rec.sessionId = ""
    THEN "gemini"
    ELSE IF rec.type = "turn_context" THEN "codex"
    ELSE ""

RECURSIVE scan_lines(_, _)
scan_lines(lines, i) ==
    IF i > Len(lines) THEN "codex"
    ELSE IF lines[i].json = "bad" THEN scan_lines(lines, i + 1)
    ELSE IF lines[i].json = "list" THEN "AttributeError"
    ELSE IF detect_line(lines[i]) # "" THEN detect_line(lines[i])
    ELSE scan_lines(lines, i + 1)

\* The whole-document branch taken for a .json suffix.
detect_json(f) ==
    LET d == json_load(f.lines) IN
    /\ f.suffix = ".json"
    /\ d.ok
    /\ \/ d.data.json = "dict" /\ d.data.hasMessages
       \/ /\ d.data.json = "list"
          /\ Len(d.data.messages) > 0
          /\ d.data.messages[1].role \in {"user", "model"}

auto_detect(f) ==
    IF detect_json(f) THEN "gemini" ELSE scan_lines(f.lines, 1)

-----------------------------------------------------------------------------
(* Shared model: Event, Agent, Session (models.py) *)

\* content is the length of the content of a tool-invocation or tool-result
\* event (the text of the other events is not modelled: 0).
\* request_id, src and seq are history fields: the request identifier of the
\* source record, the _process_lines call (1 = main file, k + 1 = k-th
\* sub-agent file) and the position at which the event was produced.
Event(timestamp, type, agent_id, tool_name, toks, request_id, w) ==
    [timestamp |-> timestamp, type |-> type, agent_id |-> agent_id,
     tool_name |-> tool_name, input_tokens |-> toks[1],
     output_tokens |-> toks[2], cache_read_tokens |-> toks[3],
     content |-> 0, request_id |-> request_id, src |-> w.src,
     seq |-> Len(w.session.events) + 1]

Agent(id, name, is_subagent, color) ==
    [id |-> id, name |-> name, is_subagent |-> is_subagent, color |-> color,
     spawn_time |-> 0, input_tokens |-> 0, output_tokens |-> 0,
     cache_read_tokens |-> 0]

Session(id, main_agent) ==
    [id |-> id, start_time |-> 0, agents |-> [a \in {"main"} |-> main_agent],
     events |-> <<>>]

\* dict item assignment d[k] = v
Put(d, k, v) == [x \in DOMAIN d \cup {k} |-> IF x = k THEN v ELSE d[x]]

\* list.sort(key=lambda e: e.timestamp): stable, ascending.
RECURSIVE InsertStable(_, _)
InsertStable(sorted, e) ==
    IF sorted = <<>> THEN <<e>>
    ELSE IF sorted[Len(sorted)].timestamp <= e.timestamp
    THEN Append(sorted, e)
    ELSE Append(InsertStable(SubSeq(sorted, 1, Len(sorted) - 1), e),
                sorted[Len(sorted)])

\* A normalizer that forgets the final sort.
sort_missing(events) == events

RECURSIVE sort_by_timestamp(_)
sort_by_timestamp(events) ==
    IF events = <<>> THEN <<>>
    ELSE InsertStable(sort_by_timestamp(SubSeq(events, 1, Len(events) - 1)),
                      events[Len(events)])

\* The length of s[:k] for a string s of length n.
Slice(n, k) == IF n <= k THEN n ELSE k

-----------------------------------------------------------------------------
(* Claude Code normalizer and Token Accountant *)

TOOL_TYPE_MAP(tool_name) ==
    CASE tool_name = "Bash" -> "bash"
      [] tool_name = "Read" -> "file_read"
      [] tool_name = "Write" -> "file_create"
      [] tool_name = "Edit" -> "file_update"
      [] tool_name \in {"Glob", "Grep"} -> "tool_call"
      [] tool_name \in {"WebSearch", "WebFetch"} -> "web_search"
      [] tool_name = "Task" -> "spawn"
      [] OTHER -> "tool_call"

\* The working state of one _process_lines call:
\*   w.session, w.seen (seen_request_ids), w.assigned (request_tokens_assigned),
\*   w.ledger (history of counter additions), w.exc (exception raised, "" = none),
\*   w.src (number of the _process_lines call, history)
Work(s, lg) ==
    [session |-> s, seen |-> {}, assigned |-> {}, ledger |-> lg, exc |-> "",
     src |-> 0]

AppendEvent(w, e) ==
    [w EXCEPT !.session.events = Append(@, e)]

\* An accountant that annotates every event of a request.
event_tokens_every_time(rec, w) ==
    [toks |-> IF rec.requestId # "" THEN rec.usage ELSE <<0, 0, 0>>,
     assigned |-> w.assigned \cup {rec.requestId}]

\* _event_tokens: the record's usage for the first call per request id.
_event_tokens(rec, w) ==
    IF rec.requestId # "" /\ rec.requestId \notin w.assigned
    THEN [toks |-> rec.usage, assigned |-> w.assigned \cup {rec.requestId}]
    ELSE [toks |-> <<0, 0, 0>>, assigned |-> w.assigned]

\* One content block of an assistant record.
assistant_block(block, rec, agent_id, w) ==
    LET et == _event_tokens(rec, w)
        ev == [w EXCEPT !.assigned = et.assigned]
    IN
    IF block.type = "thinking" /\ block.text
    THEN AppendEvent(ev, Event(rec.ts, "think", agent_id, "", et.toks,
                               rec.requestId, w))
    ELSE IF block.type = "text" /\ block.text
    THEN AppendEvent(w, Event(rec.ts, "text", agent_id, "", <<0, 0, 0>>,
                              rec.requestId, w))
    ELSE IF block.type = "tool_use"
    THEN AppendEvent(ev, [Event(rec.ts, TOOL_TYPE_MAP(block.name), agent_id,
                                block.name, et.toks, rec.requestId, w)
                             EXCEPT !.content = block.size])
    ELSE w

\* One content block of a user record.
user_block(block, rec, agent_id, w) ==
    IF block.type = "tool_result"
    THEN AppendEvent(w, [Event(rec.ts,
                               IF block.is_error THEN "error" ELSE "tool_result",
                               agent_id, "", <<0, 0, 0>>, rec.requestId, w)
                            EXCEPT !.content = block.size])
    ELSE w

RECURSIVE process_blocks(_, _, _, _, _)
process_blocks(blocks, i, rec, agent_id, w) ==
    IF i > Len(blocks) THEN w
    ELSE process_blocks(blocks, i + 1, rec, agent_id,
            IF rec.type = "user" THEN user_block(blocks[i], rec, agent_id, w)
            ELSE assistant_block(blocks[i], rec, agent_id, w))

\* Agent-level accounting of an assistant record: once per request id.
count_agent_tokens(rec, agent_id, w) ==
    IF rec.requestId # "" /\ rec.requestId \notin w.seen
    THEN [w EXCEPT
            !.seen = @ \cup {rec.requestId},
            !.session.agents[agent_id].input_tokens = @ + rec.usage[1],
            !.session.agents[agent_id].output_tokens = @ + rec.usage[2],
            !.session.agents[agent_id].cache_read_tokens = @ + rec.usage[3],
            !.ledger = Append(@, [agent_id |-> agent_id,
                                  request_id |-> rec.requestId,
                                  toks |-> rec.usage])]
    ELSE w

\* The body of the loop of _process_lines for one record.
process_rec(rec, agent_id, w) ==
    IF rec.json = "list" THEN [w EXCEPT !.exc = "AttributeError"]
    ELSE IF rec.type = "user"
    THEN IF rec.mcontent = "str"
         THEN AppendEvent(w, Event(rec.ts, "user", agent_id, "", <<0, 0, 0>>,
                                   rec.requestId, w))
         ELSE IF rec.mcontent = "list"
         THEN process_blocks(rec.blocks, 1, rec, agent_id, w)
         ELSE w
    ELSE IF rec.type = "assistant"
    THEN LET w1 == count_agent_tokens(rec, agent_id, w) IN
         IF rec.mcontent # "list" THEN w1
         ELSE process_blocks(rec.blocks, 1, rec, agent_id, w1)
    ELSE w

RECURSIVE process_from(_, _, _, _)
process_from(lines, i, agent_id, w) ==
    IF i > Len(lines) \/ w.exc # "" THEN w
    ELSE process_from(lines, i + 1, agent_id, process_rec(lines[i], agent_id, w))

\* _process_lines(lines, agent_id, session): fresh local sets for each call.
_process_lines(lines, agent_id, w) ==
    process_from(lines, 1, agent_id,
                 [w EXCEPT !.seen = {}, !.assigned = {}, !.src = @ + 1])

\* parse_claude_code, lines 479-484: the session id used for the lookup.
RECURSIVE first_session_id(_, _, _)
first_session_id(lines, i, stem) ==
    IF i > Len(lines) THEN stem
    ELSE IF lines[i].sessionId # "" THEN lines[i].sessionId
    ELSE first_session_id(lines, i + 1, stem)

\* Sub-agent discovery: the first candidate directory that exists; its
\* agent-*.jsonl files sorted by name.  f.dirs maps a directory name to them.
discover(f) ==
    LET session_id == first_session_id(_read_jsonl(f.lines), 1, f.stem) IN
    IF f.stem \in DOMAIN f.dirs THEN f.dirs[f.stem]
    ELSE IF session_id \in DOMAIN f.dirs THEN f.dirs[session_id]
    ELSE <<>>

\* One iteration of the registration loop over subagent_files.
\* r: [session, color_idx, subagent_events, exc]
register_one(sa_file, r) ==
    LET sa_lines == _read_jsonl(sa_file.lines)
        agent_id == IF sa_lines[1].agentId # "" THEN sa_lines[1].agentId
                    ELSE sa_file.stem
    IN
    IF sa_lines = <<>> THEN r
    ELSE IF sa_lines[1].json = "list" THEN [r EXCEPT !.exc = "AttributeError"]
    ELSE [r EXCEPT
            !.session.agents =
                Put(@, agent_id,
                    Agent(agent_id, agent_id, TRUE,
                          AGENT_COLORS[(r.color_idx % Len(AGENT_COLORS)) + 1])),
            !.color_idx = @ + 1,
            !.subagent_events = Append(@, [agent_id |-> agent_id,
                                           lines |-> sa_lines])]

RECURSIVE register_from(_, _, _)
register_from(files, i, r) ==
    IF i > Len(files) \/ r.exc # "" THEN r
    ELSE register_from(files, i + 1, register_one(files[i], r))

\* parse_claude_code up to line 512: the eager main agent, then the
\* sub-agents of the discovered files.
register_agents(f) ==
    register_from(discover(f), 1,
        [session |-> Session("unknown", Agent("main", "Main", FALSE, "cyan")),
         color_idx |-> 0, subagent_events |-> <<>>, exc |-> ""])

\* A merge that files the records of a companion file under the file's name.
sources_by_stem(f) ==
    LET subs == SelectSeq(discover(f), LAMBDA sf : _read_jsonl(sf.lines) # <<>>)
    IN <<[agent_id |-> "main", lines |-> _read_jsonl(f.lines)]>>
        \o [i \in 1..Len(subs) |->
               [agent_id |-> subs[i].stem, lines |-> _read_jsonl(subs[i].lines)]]

\* The record lists in processing order: main first, then each sub-agent.
sources(f) ==
    <<[agent_id |-> "main", lines |-> _read_jsonl(f.lines)]>>
        \o register_agents(f).subagent_events

\* Lines 524-532: metadata from the first user/assistant record with a
\* sessionId.
RECURSIVE set_metadata(_, _, _)
set_metadata(lines, i, s) ==
    IF i > Len(lines) THEN s
    ELSE IF lines[i].type \in {"user", "assistant"} /\ lines[i].sessionId # ""
    THEN [s EXCEPT !.id = lines[i].sessionId, !.start_time = lines[i].ts]
    ELSE set_metadata(lines, i + 1, s)

\* Lines 534-538: spawn time = timestamp of the agent's first event whose
\* timestamp is non-empty at the time no spawn time is set.
RECURSIVE set_spawn_times(_, _, _)
set_spawn_times(events, i, agents) ==
    IF i > Len(events) THEN agents
    ELSE set_spawn_times(events, i + 1,
            IF events[i].agent_id \in DOMAIN agents
               /\ agents[events[i].agent_id].spawn_time = 0
            THEN [agents EXCEPT ![events[i].agent_id].spawn_time =
                                    events[i].timestamp]
            ELSE agents)

\* A merge that leaves the events in processing order.
finish_unsorted(f, s) ==
    LET s1 == set_metadata(_read_jsonl(f.lines), 1, s)
    IN [s1 EXCEPT !.agents = set_spawn_times(s.events, 1, @)]

\* Lines 521-540: the final sort, metadata and spawn times.
finish_claude_code(f, s) ==
    LET sorted == sort_by_timestamp(s.events)
        s1 == set_metadata(_read_jsonl(f.lines), 1,
                           [s EXCEPT !.events = sorted])
    IN [s1 EXCEPT !.agents = set_spawn_times(sorted, 1, @)]

RECURSIVE process_sources(_, _, _)
process_sources(srcs, k, w) ==
    IF k > Len(srcs) \/ w.exc # "" THEN w
    ELSE process_sources(srcs, k + 1,
                         _process_lines(srcs[k].lines, srcs[k].agent_id, w))

\* parse_claude_code as a function of the files: [exc, session, ledger].
parse_claude_code(f) ==
    LET r == register_agents(f)
        w == process_sources(sources(f), 1, Work(r.session, <<>>))
    IN
    IF r.exc # "" THEN [exc |-> r.exc, session |-> r.session, ledger |-> <<>>]
    ELSE IF w.exc # ""
    THEN [exc |-> w.exc, session |-> w.session, ledger |-> w.ledger]
    ELSE [exc |-> "", session |-> finish_claude_code(f, w.session),
          ledger |-> w.ledger]

-----------------------------------------------------------------------------
(* Codex normalizer *)

\* A classification that knows no shell tool.
codex_tool_type_generic(tool_name) == "tool_call"

codex_tool_type(tool_name) ==
    IF tool_name \in {"write_file", "create_file"} THEN "file_create"
    ELSE IF tool_name \in {"edit_file", "patch"} THEN "file_update"
    ELSE IF tool_name = "read_file" THEN "file_read"
    ELSE IF tool_name = "shell" THEN "bash"
    ELSE "tool_call"

\* An accountant that takes a usage equal to an earlier one for a repeat.
codex_add_tokens_once(rec, w) ==
    IF \E i \in 1..Len(w.ledger) : w.ledger[i].toks = rec.usage THEN w
    ELSE [w EXCEPT
            !.session.agents["main"].input_tokens = @ + rec.usage[1],
            !.session.agents["main"].output_tokens = @ + rec.usage[2],
            !.session.agents["main"].cache_read_tokens = @ + rec.usage[3],
            !.ledger = Append(@, [agent_id |-> "main", request_id |-> "",
                                  toks |-> rec.usage])]

\* Lines 246-255: the usage of a token_count record goes to the main agent.
codex_add_tokens(rec, w) ==
    [w EXCEPT
        !.session.agents["main"].input_tokens = @ + rec.usage[1],
        !.session.agents["main"].output_tokens = @ + rec.usage[2],
        !.session.agents["main"].cache_read_tokens = @ + rec.usage[3],
        !.ledger = Append(@, [agent_id |-> "main", request_id |-> "",
                              toks |-> rec.usage])]

\* The body of the loop of parse_codex for one record.
codex_rec(rec, w) ==
    LET E(type, tool) == Event(rec.ts, type, "main", tool, <<0, 0, 0>>, "", w)
    IN
    IF rec.json = "list" THEN [w EXCEPT !.exc = "AttributeError"]
    ELSE IF rec.type = "session_meta"
    THEN [w EXCEPT !.session.start_time = rec.ts]
    ELSE IF rec.type = "response_item"
    THEN IF rec.item = "message"
         THEN AppendEvent(w, E(IF rec.irole = "user" THEN "user" ELSE "text", ""))
         ELSE IF rec.item = "function_call"
         THEN LET tool_name == IF rec.name = "" THEN "unknown" ELSE rec.name
              IN AppendEvent(w, [E(codex_tool_type(tool_name), tool_name)
                                    EXCEPT !.content = IF rec.size > 0
                                                       THEN Slice(rec.size, 500)
                                                       ELSE Len(tool_name)])
         ELSE IF rec.item = "function_call_output"
         THEN AppendEvent(w, [E("tool_result", "")
                                 EXCEPT !.content = Slice(rec.size, 2000)])
         ELSE w
    ELSE IF rec.type = "message" /\ rec.role # ""
    THEN IF rec.role = "user" THEN AppendEvent(w, E("user", ""))
         ELSE IF rec.role = "assistant" THEN AppendEvent(w, E("text", ""))
         ELSE w
    ELSE IF rec.type = "event_msg" /\ rec.ptype = "token_count"
    THEN codex_add_tokens(rec, w)
    ELSE w

RECURSIVE codex_from(_, _, _)
codex_from(lines, i, w) ==
    IF i > Len(lines) \/ w.exc # "" THEN w
    ELSE codex_from(lines, i + 1, codex_rec(lines[i], w))

\* Lines 266-277 and 324-329: sort, then start and spawn time from the
\* first event.
finish_single_agent(s) ==
    LET sorted == sort_by_timestamp(s.events) IN
    IF sorted = <<>> THEN s
    ELSE [s EXCEPT
            !.events = sorted,
            !.start_time = IF @ = 0 THEN sorted[1].timestamp ELSE @,
            !.agents["main"].spawn_time = sorted[1].timestamp]

parse_codex(f) ==
    LET w == codex_from(_read_jsonl(f.lines), 1,
                        Work(Session(f.stem, Agent("main", "Codex", FALSE, "green")),
                             <<>>))
    IN
    IF w.exc # ""
    THEN [exc |-> w.exc, session |-> w.session, ledger |-> w.ledger]
    ELSE [exc |-> "", session |-> finish_single_agent(w.session),
          ledger |-> w.ledger]

-----------------------------------------------------------------------------
(* Gemini normalizer *)

\* Substring tests of _parse_gemini_json on the lower-cased tool name.
NameHas(tool_name, word) ==
    CASE word = "edit" -> tool_name \in {"edit_file"}
      [] word = "update" -> tool_name \in {"update_file"}
      [] word = "read" -> tool_name \in {"read_file"}
      [] word = "write" -> tool_name \in {"write_file"}
      [] word = "create" -> tool_name \in {"create_file"}
      [] OTHER -> FALSE

gemini_json_tool_type(tool_name) ==
    IF NameHas(tool_name, "edit") \/ NameHas(tool_name, "update")
    THEN "file_update"
    ELSE IF NameHas(tool_name, "read") THEN "file_read"
    ELSE IF NameHas(tool_name, "write") \/ NameHas(tool_name, "create")
    THEN "file_create"
    ELSE IF tool_name \in {"run_shell", "shell"} THEN "bash"
    ELSE "tool_call"

gemini_jsonl_tool_type(tool_name) ==
    IF tool_name \in {"run_shell", "shell"} THEN "bash" ELSE "tool_call"

\* One part of a message of the JSON document: text, functionCall,
\* functionResponse, each yielding an event.
gemini_part(part, msg, w) ==
    LET E(type, tool, evs) == Event(msg.ts, type, "main", tool, <<0, 0, 0>>, "", evs)
        w1 == IF part.text
              THEN AppendEvent(w, E(IF msg.role = "user" THEN "user" ELSE "text",
                                    "", w))
              ELSE w
        w2 == IF part.fc # ""
              THEN AppendEvent(w1, [E(gemini_json_tool_type(part.fc), part.fc, w1)
                                       EXCEPT !.content = IF part.size > 0
                                                          THEN Slice(part.size, 500)
                                                          ELSE Len(part.fc)])
              ELSE w1
    IN IF part.fr
       THEN AppendEvent(w2, [E("tool_result", "", w2)
                                EXCEPT !.content = Slice(part.size, 2000)])
       ELSE w2

RECURSIVE gemini_parts(_, _, _, _)
gemini_parts(parts, i, msg, w) ==
    IF i > Len(parts) THEN w
    ELSE gemini_parts(parts, i + 1, msg, gemini_part(parts[i], msg, w))

RECURSIVE gemini_messages(_, _, _)
gemini_messages(messages, i, w) ==
    IF i > Len(messages) THEN w
    ELSE gemini_messages(messages, i + 1,
                         gemini_parts(messages[i].parts, 1, messages[i], w))

\* _parse_gemini_json: json.load of the whole file, then the message list.
_parse_gemini_json(f, w) ==
    LET d == json_load(f.lines) IN
    IF ~d.ok THEN [w EXCEPT !.exc = "JSONDecodeError"]
    ELSE IF d.data.json = "dict"
    THEN gemini_messages(d.data.messages, 1,
            [w EXCEPT !.session.id = IF d.data.sessionId # ""
                                     THEN d.data.sessionId ELSE @,
                      !.session.start_time = d.data.startTime])
    ELSE gemini_messages(d.data.messages, 1, w)

\* The functionCall events of the content blocks of one JSONL record.
RECURSIVE gemini_blocks(_, _, _, _)
gemini_blocks(blocks, i, rec, w) ==
    IF i > Len(blocks) THEN w
    ELSE gemini_blocks(blocks, i + 1, rec,
            IF blocks[i].type # "str" /\ blocks[i].fc # ""
            THEN AppendEvent(w, [Event(rec.ts, gemini_jsonl_tool_type(blocks[i].fc),
                                       "main", blocks[i].fc, <<0, 0, 0>>, "", w)
                                    EXCEPT !.content = IF blocks[i].size > 0
                                                       THEN Slice(blocks[i].size, 500)
                                                       ELSE Len(blocks[i].fc)])
            ELSE w)

\* The body of the loop of _parse_gemini_jsonl for one record.
gemini_rec(rec, w) ==
    IF rec.json = "list" THEN [w EXCEPT !.exc = "AttributeError"]
    ELSE IF rec.type = "session_metadata"
    THEN [w EXCEPT
            !.session.id = IF rec.sessionId # "" THEN rec.sessionId ELSE @,
            !.session.start_time = IF rec.startTime # 0 THEN rec.startTime
                                   ELSE rec.ts]
    ELSE IF rec.type \in {"user", "gemini"}
    THEN LET w1 == gemini_blocks(rec.blocks, 1, rec, w) IN
         IF \E i \in 1..Len(rec.blocks) : rec.blocks[i].text
         THEN AppendEvent(w1, Event(rec.ts,
                                    IF rec.type = "user" THEN "user" ELSE "text",
                                    "main", "", <<0, 0, 0>>, "", w1))
         ELSE w1
    ELSE IF rec.type = "message_update"
    THEN [w EXCEPT
            !.session.agents["main"].input_tokens = @ + rec.usage[1],
            !.session.agents["main"].output_tokens = @ + rec.usage[2],
            !.ledger = Append(@, [agent_id |-> "main", request_id |-> "",
                                  toks |-> <<rec.usage[1], rec.usage[2], 0>>])]
    ELSE w

RECURSIVE gemini_from(_, _, _)
gemini_from(lines, i, w) ==
    IF i > Len(lines) \/ w.exc # "" THEN w
    ELSE gemini_from(lines, i + 1, gemini_rec(lines[i], w))

parse_gemini(f) ==
    LET w0 == Work(Session(f.stem, Agent("main", "Gemini", FALSE, "blue")), <<>>)
        w == IF f.suffix = ".json" THEN _parse_gemini_json(f, w0)
             ELSE gemini_from(_read_jsonl(f.lines), 1, w0)
    IN
    IF w.exc # ""
    THEN [exc |-> w.exc, session |-> w.session, ledger |-> w.ledger]
    ELSE [exc |-> "", session |-> finish_single_agent(w.session),
          ledger |-> w.ledger]

-----------------------------------------------------------------------------
(* parse(), lines 107-113: detection and dispatch *)

normalize(f) ==
    LET d == auto_detect(f) IN
    IF d = "AttributeError"
    THEN [exc |-> d, session |-> <<>>, ledger |-> <<>>]
    ELSE IF d = "claude_code" THEN parse_claude_code(f)
    ELSE IF d = "gemini" THEN parse_gemini(f)
    ELSE parse_codex(f)

-----------------------------------------------------------------------------
(* Generated transcripts *)

Blk(type) == [B0 EXCEPT !.type = type, !.text = TRUE]
ToolUse(name) == [B0 EXCEPT !.type = "tool_use", !.name = name]
Part(text, fc, fr) == [B0 EXCEPT !.text = text, !.fc = fc, !.fr = fr]

\* Claude Code records.  Real transcripts repeat one requestId over several
\* records (one per content block) with usage that may grow while streaming.
CCUser(ts) ==
    [R0 EXCEPT !.type = "user", !.ts = ts, !.sessionId = "s1", !.mcontent = "str"]
CCToolResult(ts) ==
    [R0 EXCEPT !.type = "user", !.ts = ts, !.sessionId = "s1",
               !.blocks = <<[B0 EXCEPT !.type = "tool_result"]>>]
CCAssistant(ts, requestId, usage, blocks, agentId) ==
    [R0 EXCEPT !.type = "assistant", !.ts = ts, !.sessionId = "s1",
               !.requestId = requestId, !.usage = usage, !.blocks = blocks,
               !.agentId = agentId]
Unknown == [R0 EXCEPT !.type = "summary"]

Usages == {<<1, 1, 0>>, <<1, 2, 1>>}
CCBlocks == {<<Blk("text")>>, <<Blk("thinking"), ToolUse("Read")>>}

CCRecs ==
    {CCAssistant(ts, "r1", u, b, "") :
        ts \in {1, 2}, u \in Usages, b \in CCBlocks}
    \cup {CCAssistant(1, "r2", <<1, 1, 0>>, <<ToolUse("Bash")>>, ""),
          CCAssistant(1, "", <<1, 1, 0>>, <<ToolUse("Bash")>>, ""),
          CCUser(1), CCToolResult(2), BadLine, ListLine, Unknown}

\* Records of transcripts that come with sub-agent files.
CCMergeRecs == {CCAssistant(ts, "r1", <<1, 1, 0>>, <<ToolUse("Bash")>>, "") : ts \in TS}
CCSubRecs ==
    {CCAssistant(ts, "r1", <<1, 1, 0>>, <<ToolUse("Grep")>>, a) :
        ts \in {1, 2}, a \in {"", "main"}}
    \cup {ListLine}

SubStems == <<"a1", "a2", "a3", "a4">>

\* Directory listings: k files named agent-a1 .. agent-ak, at most one line each.
Listings ==
    UNION {
        {[i \in 1..k |-> [stem |-> SubStems[i], lines |-> ls[i]]] :
            ls \in [1..k -> SeqsUpTo(CCSubRecs, 1)]} :
        k \in 0..MaxSubFiles}

NoDirs == [d \in {} |-> <<>>]

CCFiles ==
    {[suffix |-> ".jsonl", stem |-> "s0", lines |-> ls, dirs |-> NoDirs] :
        ls \in SeqsUpTo(CCRecs, MaxLines)}
    \cup
    {[suffix |-> ".jsonl", stem |-> "s0", lines |-> ls,
      dirs |-> [d \in {dn} |-> l]] :
        ls \in SeqsUpTo(CCMergeRecs, MaxLines), dn \in {"s0", "s1"},
        l \in Listings}

\* Codex records.
CodexItem(ts, item, irole, name) ==
    [R0 EXCEPT !.type = "response_item", !.ts = ts, !.item = item,
               !.irole = irole, !.name = name]
CodexRecs ==
    {CodexItem(ts, "function_call", "", "shell") : ts \in {1, 2}}
    \cup {[R0 EXCEPT !.type = "session_meta", !.ts = 2],
          CodexItem(2, "message", "user", ""),
          CodexItem(1, "message", "assistant", ""),
          CodexItem(1, "function_call_output", "", ""),
          [R0 EXCEPT !.type = "message", !.role = "user", !.ts = 3,
                     !.hasContent = TRUE],
          [R0 EXCEPT !.type = "event_msg", !.ptype = "token_count",
                     !.usage = <<1, 1, 0>>],
          [R0 EXCEPT !.type = "turn_context"], BadLine, ListLine, Unknown}

\* Gemini JSONL records.
GeminiLine(type, ts, blocks) ==
    [R0 EXCEPT !.type = type, !.ts = ts, !.hasContent = TRUE, !.blocks = blocks]
GeminiRecs ==
    {[R0 EXCEPT !.type = "session_metadata", !.ts = ts, !.startTime = st] :
        ts \in {1}, st \in {0, 2}}
    \cup {GeminiLine("user", ts, <<Part(TRUE, "", FALSE)>>) : ts \in {1, 2}}
    \cup {GeminiLine("gemini", 1, b) :
            b \in {<<Part(TRUE, "shell", FALSE)>>, <<Part(FALSE, "read_file", FALSE)>>,
                   <<Part(FALSE, "", TRUE)>>}}
    \cup {GeminiLine("gemini", 2, <<Part(TRUE, "shell", FALSE)>>)}
    \cup {[R0 EXCEPT !.type = "message_update", !.usage = <<1, 1, 0>>],
          BadLine, ListLine, Unknown}

\* Gemini JSON documents: an object with a message list, or a bare list.
GeminiMsgs ==
    {[role |-> "user", ts |-> ts, parts |-> <<Part(TRUE, "", FALSE)>>] :
        ts \in {1, 2}}
    \cup {[role |-> "model", ts |-> ts, parts |-> <<Part(FALSE, "shell", FALSE)>>] :
            ts \in {1, 2}}
    \cup {[role |-> "model", ts |-> 1, parts |-> <<Part(TRUE, "", FALSE)>>],
          [role |-> "model", ts |-> 2, parts |-> <<Part(FALSE, "", TRUE)>>]}
GeminiDocs ==
    {[R0 EXCEPT !.hasMessages = TRUE, !.messages = ms, !.startTime = st] :
        ms \in SeqsUpTo(GeminiMsgs, MaxMsgs), st \in {0, 2}}
    \cup {[R0 EXCEPT !.json = "list", !.messages = ms] :
            ms \in SeqsUpTo(GeminiMsgs, 1)}

LineFiles ==
    {[suffix |-> ".jsonl", stem |-> "s0", lines |-> ls, dirs |-> NoDirs] :
        ls \in SeqsUpTo(CodexRecs, MaxLines) \cup SeqsUpTo(GeminiRecs, MaxLines)}
    \cup {[suffix |-> ".json", stem |-> "s0", lines |-> ls, dirs |-> NoDirs] :
            ls \in SeqsUpTo(GeminiRecs, MaxLines)}
DocFiles ==
    {[suffix |-> sx, stem |-> "s0", lines |-> <<d>>, dirs |-> NoDirs] :
        sx \in {".jsonl", ".json"}, d \in GeminiDocs}

\* Codex rollouts of three lines: session_meta, a shell function_call and
\* its function_call_output.
CodexRollout(t0, t1, t2) ==
    [suffix |-> ".jsonl", stem |-> "s0", dirs |-> NoDirs,
     lines |-> <<[R0 EXCEPT !.type = "session_meta", !.ts = t0],
                 CodexItem(t1, "function_call", "", "shell"),
                 CodexItem(t2, "function_call_output", "", "")>>]
RolloutFiles == {CodexRollout(t0, t1, t2) : t0 \in TS, t1 \in TS, t2 \in TS}

\* Transcripts of one record with a tool payload of a given length.
Sizes == {0, 1, 500, 501, 2000, 2001}

PayloadLines ==
    UNION {
        {<<[CodexItem(1, "function_call", "", "shell") EXCEPT !.size = n]>>,
         <<[CodexItem(1, "function_call_output", "", "") EXCEPT !.size = n]>>,
         <<CCAssistant(1, "r1", <<1, 1, 0>>,
                       <<[ToolUse("Bash") EXCEPT !.size = n]>>, "")>>,
         <<[CCToolResult(1) EXCEPT !.blocks[1].size = n]>>,
         <<GeminiLine("gemini", 1,
                      <<[Part(FALSE, "shell", FALSE) EXCEPT !.size = n]>>)>>} :
        n \in Sizes}

PayloadDocs ==
    UNION {
        {[R0 EXCEPT !.hasMessages = TRUE,
                    !.messages = <<[role |-> "model", ts |-> 1,
                                    parts |-> <<[Part(FALSE, fc, fc = "")
                                                   EXCEPT !.size = n]>>]>>] :
            fc \in {"", "shell"}} :
        n \in Sizes}

PayloadFiles ==
    {[suffix |-> ".jsonl", stem |-> "s0", lines |-> ls, dirs |-> NoDirs] :
        ls \in PayloadLines}
    \cup {[suffix |-> ".json", stem |-> "s0", lines |-> <<d>>, dirs |-> NoDirs] :
            d \in PayloadDocs}

\* Files around a record of type 'user' with a content field, with and
\* without a sessionId.
UserWithContent(sessionId) ==
    [GeminiLine("user", 1, <<Part(TRUE, "", FALSE)>>)
        EXCEPT !.sessionId = sessionId]
MarkerRecs ==
    {UserWithContent("s1"), UserWithContent(""), Unknown, ListLine}
MarkerFiles ==
    {[suffix |-> ".jsonl", stem |-> "s0", lines |-> ls, dirs |-> NoDirs] :
        ls \in SeqsUpTo(MarkerRecs, MaxLines)}

\* Codex files with records that lack fields: a response_item without an
\* item, and a function_call item without timestamp, name and arguments.
DeficientRecs ==
    {CodexItem(1, "function_call", "", "shell"),
     CodexItem(0, "function_call", "", ""),
     [R0 EXCEPT !.type = "response_item"], BadLine}
DeficientFiles ==
    {[suffix |-> ".jsonl", stem |-> "s0", lines |-> ls, dirs |-> NoDirs] :
        ls \in SeqsUpTo(DeficientRecs, MaxLines)}

Files ==
    CCFiles \cup LineFiles \cup DocFiles \cup RolloutFiles \cup PayloadFiles
        \cup MarkerFiles \cup DeficientFiles

-----------------------------------------------------------------------------
(* SpecParse: one parse() of one generated transcript, record by record *)

NoFile == [suffix |-> "", stem |-> "", lines |-> <<>>, dirs |-> NoDirs]
NoSession == Session("", Agent("main", "", FALSE, ""))

W == [session |-> session, seen |-> seen_request_ids,
      assigned |-> request_tokens_assigned, ledger |-> ledger, exc |-> "",
      src |-> IF fmt = "claude_code" THEN cursor[1] ELSE 0]

\* The assignment of a working state to the variables of the call.
Store(w, next_pc) ==
    /\ session' = w.session
    /\ seen_request_ids' = w.seen
    /\ request_tokens_assigned' = w.assigned
    /\ ledger' = w.ledger
    /\ pc' = IF w.exc # "" THEN "raised" ELSE next_pc

InitParse ==
    /\ file \in Files
    /\ pc = "call" /\ fmt = "" /\ cursor = <<1, 1>>
    /\ session = NoSession
    /\ seen_request_ids = {} /\ request_tokens_assigned = {} /\ ledger = <<>>
    /\ fs = <<>> /\ cache = <<>> /\ last = <<>> /\ prev = <<>>
    /\ nInserted = 0 /\ nCalls = 0
    /\ callers = <<>>
    /\ feed = <<>>

\* parse(), lines 107-113: auto_detect and the choice of the normalizer,
\* which creates the Session and its main agent.
Detect ==
    /\ pc = "call"
    /\ fmt' = auto_detect(file)
    /\ pc' = CASE fmt' = "AttributeError" -> "raised"
               [] fmt' = "claude_code" -> "cc_register"
               [] fmt' = "gemini" -> "gemini"
               [] OTHER -> "codex"
    /\ session' =
         CASE fmt' = "claude_code" ->
                Session("unknown", Agent("main", "Main", FALSE, "cyan"))
           [] fmt' = "gemini" ->
                Session(file.stem, Agent("main", "Gemini", FALSE, "blue"))
           [] OTHER -> Session(file.stem, Agent("main", "Codex", FALSE, "green"))
    /\ UNCHANGED <<file, cursor, seen_request_ids, request_tokens_assigned,
                   ledger, cacheVars, threadVars,
                   feedVars>>

\* parse_claude_code, lines 476-512.
CCRegister ==
    /\ pc = "cc_register"
    /\ LET r == register_agents(file) IN
       /\ session' = r.session
       /\ pc' = IF r.exc # "" THEN "raised" ELSE "cc_lines"
    /\ cursor' = <<1, 1>>
    /\ UNCHANGED <<file, fmt, seen_request_ids, request_tokens_assigned,
                   ledger, cacheVars, threadVars,
                   feedVars>>

\* One iteration of the loop of _process_lines.
CCRecord ==
    /\ pc = "cc_lines"
    /\ cursor[2] <= Len(sources(file)[cursor[1]].lines)
    /\ Store(process_rec(sources(file)[cursor[1]].lines[cursor[2]],
                         sources(file)[cursor[1]].agent_id, W), "cc_lines")
    /\ cursor' = <<cursor[1], cursor[2] + 1>>
    /\ UNCHANGED <<file, fmt, cacheVars, threadVars, feedVars>>

\* _process_lines returns and is called for the next sub-agent.
CCNextFile ==
    /\ pc = "cc_lines"
    /\ cursor[2] > Len(sources(file)[cursor[1]].lines)
    /\ cursor[1] < Len(sources(file))
    /\ cursor' = <<cursor[1] + 1, 1>>
    /\ seen_request_ids' = {}
    /\ request_tokens_assigned' = {}
    /\ UNCHANGED <<file, pc, fmt, session, ledger, cacheVars, threadVars,
                   feedVars>>

\* parse_claude_code, lines 521-540.
CCFinish ==
    /\ pc = "cc_lines"
    /\ cursor[2] > Len(sources(file)[cursor[1]].lines)
    /\ cursor[1] = Len(sources(file))
    /\ session' = finish_claude_code(file, session)
    /\ pc' = "done"
    /\ UNCHANGED <<file, fmt, cursor, seen_request_ids,
                   request_tokens_assigned, ledger, cacheVars, threadVars,
                   feedVars>>

CodexRecord ==
    /\ pc = "codex"
    /\ cursor[2] <= Len(_read_jsonl(file.lines))
    /\ Store(codex_rec(_read_jsonl(file.lines)[cursor[2]], W), "codex")
    /\ cursor' = <<1, cursor[2] + 1>>
    /\ UNCHANGED <<file, fmt, cacheVars, threadVars, feedVars>>

CodexFinish ==
    /\ pc = "codex"
    /\ cursor[2] > Len(_read_jsonl(file.lines))
    /\ session' = finish_single_agent(session)
    /\ pc' = "done"
    /\ UNCHANGED <<file, fmt, cursor, seen_request_ids,
                   request_tokens_assigned, ledger, cacheVars, threadVars,
                   feedVars>>

GeminiJson ==
    /\ pc = "gemini"
    /\ file.suffix = ".json"
    /\ Store(_parse_gemini_json(file, W), "gemini_sort")
    /\ UNCHANGED <<file, fmt, cursor, cacheVars, threadVars, feedVars>>

GeminiRecord ==
    /\ pc = "gemini"
    /\ file.suffix # ".json"
    /\ cursor[2] <= Len(_read_jsonl(file.lines))
    /\ Store(gemini_rec(_read_jsonl(file.lines)[cursor[2]], W), "gemini")
    /\ cursor' = <<1, cursor[2] + 1>>
    /\ UNCHANGED <<file, fmt, cacheVars, threadVars, feedVars>>

GeminiFinish ==
    /\ IF pc = "gemini"
       THEN file.suffix # ".json" /\ cursor[2] > Len(_read_jsonl(file.lines))
       ELSE pc = "gemini_sort"
    /\ session' = finish_single_agent(session)
    /\ pc' = "done"
    /\ UNCHANGED <<file, fmt, cursor, seen_request_ids,
                   request_tokens_assigned, ledger, cacheVars, threadVars,
                   feedVars>>

NextParse ==
    \/ Detect
    \/ CCRegister \/ CCRecord \/ CCNextFile \/ CCFinish
    \/ CodexRecord \/ CodexFinish
    \/ GeminiJson \/ GeminiRecord \/ GeminiFinish

SpecParse == InitParse /\ [][NextParse]_vars

\* The record-by-record run ends as the normalizer functions say.
StepwiseAgrees ==
    /\ pc = "done" =>
         /\ normalize(file).exc = ""
         /\ normalize(file).session = session
         /\ normalize(file).ledger = ledger
    /\ pc = "raised" => normalize(file).exc # ""

-----------------------------------------------------------------------------
(* Parse Cache *)

\* _parse_cache is a dict: a sequence of entries in insertion order, with
\* key = <<resolved path, mtime>>.  stamp is a history field: the number of
\* the insertion that created the entry.
cache_has(c, key) == \E i \in 1..Len(c) : c[i].key = key
cache_get(c, key) == c[CHOOSE i \in 1..Len(c) : c[i].key = key].session

\* A call that leaves the stale entries where they are.
purge_nothing(c, key) == c

\* Lines 115-118: the entries of the same path with another mtime go.
purge_stale(c, key) ==
    SelectSeq(c, LAMBDA e : ~(e.key[1] = key[1] /\ e.key[2] # key[2]))

\* An eviction that removes the newest entry.
evict_newest(c) ==
    IF Len(c) >= _PARSE_CACHE_MAX THEN SubSeq(c, 1, Len(c) - 1) ELSE c

\* Lines 119-122: at the size bound, the first key of the dict goes.
evict_oldest(c) ==
    IF Len(c) >= _PARSE_CACHE_MAX THEN Tail(c) ELSE c

\* Line 123: _parse_cache[key] = session (a present key keeps its place).
cache_put(c, key, s, n) ==
    IF cache_has(c, key)
    THEN [i \in 1..Len(c) |->
            IF c[i].key = key THEN [c[i] EXCEPT !.session = s] ELSE c[i]]
    ELSE Append(c, [key |-> key, session |-> s, stamp |-> n])

\* A file on disk: exists, readable (open succeeds), mtime (st_mtime),
\* content (a transcript).  A failing stat gives mtime 0.
stat_mtime(st) == IF st.exists THEN st.mtime ELSE 0

\* A lookup that never finds the key.
lookup_misses(c, path, st) == [hit |-> FALSE, session |-> NoSession]

\* Lines 96-105: the key and the lookup.
lookup(c, path, st) ==
    IF cache_has(c, <<path, stat_mtime(st)>>)
    THEN [hit |-> TRUE, session |-> cache_get(c, <<path, stat_mtime(st)>>)]
    ELSE [hit |-> FALSE, session |-> NoSession]

\* A hit that moves the returned entry to the end of the dict (LRU).
move_to_end(c, key) ==
    SelectSeq(c, LAMBDA e : e.key # key) \o SelectSeq(c, LAMBDA e : e.key = key)

\* Lines 104-105: a hit returns the cached Session; the dict is not touched.
return_cached(c, key) == c

\* A call that purges the stale entries before it normalizes.
purge_then_raise(c, key) == purge_stale(c, key)

\* Lines 107-113: an exception of open, detection or a normalizer leaves
\* parse() before the statements on the dict (115-123) run.
raise_from(c, key) == c

\* parse(file_path) on cache c, for the file st at path; n numbers the
\* insertion.  outcome: "hit", "miss" or the exception raised.
parse(c, path, st, n) ==
    LET key == <<path, stat_mtime(st)>>
        l == lookup(c, path, st)
        r == normalize(st.content)
        c1 == purge_stale(c, key)
        c2 == evict_oldest(c1)
        quiet == [outcome |-> "hit", session |-> l.session,
                  cache |-> return_cached(c, key),
                  detected |-> FALSE, evicted |-> <<>>]
    IN
    IF l.hit THEN quiet
    ELSE IF ~st.exists
    THEN [quiet EXCEPT !.outcome = "FileNotFoundError", !.session = NoSession,
                       !.cache = raise_from(c, key)]
    ELSE IF ~st.readable
    THEN [quiet EXCEPT !.outcome = "PermissionError", !.session = NoSession,
                       !.cache = raise_from(c, key)]
    ELSE IF r.exc # ""
    THEN [quiet EXCEPT !.outcome = r.exc, !.session = NoSession,
                       !.detected = TRUE, !.cache = raise_from(c, key)]
    ELSE [outcome |-> "miss", session |-> r.session,
          cache |-> cache_put(c2, key, r.session, n), detected |-> TRUE,
          evicted |-> SelectSeq(c1, LAMBDA e : ~cache_has(c2, e.key))]

-----------------------------------------------------------------------------
(* SpecCache: parse() calls of one process over files that change *)

Paths == {<<"p", 1>>, <<"p", 2>>}
Mtimes == {0, 1, 2}

\* The transcript that is still being written; the other one is finished.
Live == {<<"p", 1>>}

ContentA ==
    [suffix |-> ".jsonl", stem |-> "s0", dirs |-> NoDirs,
     lines |-> <<CodexItem(1, "function_call", "", "shell")>>]
ContentB ==
    [suffix |-> ".jsonl", stem |-> "s0", dirs |-> NoDirs,
     lines |-> <<CodexItem(1, "function_call_output", "", ""),
                 CodexItem(2, "function_call_output", "", "")>>]
ContentX ==
    [suffix |-> ".jsonl", stem |-> "s0", dirs |-> NoDirs, lines |-> <<ListLine>>]
Contents == {ContentA, ContentB, ContentX}

OnDisk(mtime, content) ==
    [exists |-> TRUE, readable |-> TRUE, mtime |-> mtime, content |-> content]
Missing == [exists |-> FALSE, readable |-> FALSE, mtime |-> 0, content |-> NoFile]
NeverParsed == [parsed |-> FALSE, returned |-> FALSE, st |-> Missing]

\* Other transcripts of the process: each parsed once while the cache is empty.
OtherPath(i) == <<"other", i>>
OtherFile == OnDisk(1, [NoFile EXCEPT !.suffix = ".jsonl"])

\* n: the number of insertions made before the first of the k calls.
RECURSIVE parse_others(_, _, _, _)
parse_others(c, i, k, n) ==
    LET r == parse(c, OtherPath(i), OtherFile, n + i) IN
    IF i > k \/ r.outcome # "miss" THEN c
    ELSE parse_others(r.cache, i + 1, k, n)

\* hit_before: the path whose entry the call before this one returned
\* from the cache (<<"", 0>> = that call was no hit).
NoCall == [op |-> "none", path |-> <<"", 0>>, outcome |-> "",
           session |-> NoSession, detected |-> FALSE, evicted |-> <<>>,
           before |-> NeverParsed, hit_before |-> <<"", 0>>]

InitCache ==
    /\ fs = [p \in Paths |-> OnDisk(1, ContentA)]
    /\ cache = <<>>
    /\ last = NoCall
    /\ prev = [p \in Paths |-> NeverParsed]
    /\ nInserted = 0 /\ nCalls = 0
    /\ callers = <<>>
    /\ feed = <<>>
    /\ file = NoFile /\ pc = "call" /\ fmt = "" /\ cursor = <<1, 1>>
    /\ session = NoSession
    /\ seen_request_ids = {} /\ request_tokens_assigned = {} /\ ledger = <<>>

\* parse(path): the whole call.
Parse(p) ==
    /\ nCalls < MaxCalls
    /\ LET r == parse(cache, p, fs[p], nInserted + 1) IN
       /\ cache' = r.cache
       /\ nInserted' = IF r.outcome = "miss" THEN nInserted + 1 ELSE nInserted
       /\ last' = [op |-> "parse", path |-> p, outcome |-> r.outcome,
                   session |-> r.session, detected |-> r.detected,
                   evicted |-> r.evicted, before |-> prev[p],
                   hit_before |-> IF last.op = "parse" /\ last.outcome = "hit"
                                  THEN last.path ELSE <<"", 0>>]
    /\ prev' = [prev EXCEPT ![p] =
                    [parsed |-> TRUE, st |-> fs[p],
                     returned |-> parse(cache, p, fs[p], 0).outcome
                                    \in {"hit", "miss"}]]
    /\ nCalls' = nCalls + 1
    /\ UNCHANGED <<fs, parseVars, threadVars, feedVars>>

\* k parse() calls, one for each of k other transcripts.
ParseOthers(k) ==
    /\ nCalls <= 1
    /\ last.op # "others"
    /\ cache' = parse_others(cache, 1, k, nInserted)
    /\ nInserted' = nInserted + k
    /\ last' = [NoCall EXCEPT !.op = "others"]
    /\ nCalls' = nCalls + 1
    /\ UNCHANGED <<fs, prev, parseVars, threadVars, feedVars>>

\* The environment writes the file: new mtime, any content.
Write(p, m, c) ==
    /\ nCalls < MaxCalls
    /\ fs[p].exists => m # fs[p].mtime
    /\ fs' = [fs EXCEPT ![p] = OnDisk(m, c)]
    /\ last' = [NoCall EXCEPT !.op = "write", !.path = p]
    /\ nCalls' = nCalls + 1
    /\ UNCHANGED <<cache, prev, nInserted, parseVars, threadVars,
                   feedVars>>

\* The environment deletes the file.
Delete(p) ==
    /\ nCalls < MaxCalls
    /\ fs[p].exists
    /\ fs' = [fs EXCEPT ![p] = Missing]
    /\ last' = [NoCall EXCEPT !.op = "delete", !.path = p]
    /\ nCalls' = nCalls + 1
    /\ UNCHANGED <<cache, prev, nInserted, parseVars, threadVars,
                   feedVars>>

\* The environment takes the read permission away (the mtime stays).
Chmod(p) ==
    /\ nCalls < MaxCalls
    /\ fs[p].exists /\ fs[p].readable
    /\ fs' = [fs EXCEPT ![p].readable = FALSE]
    /\ last' = [NoCall EXCEPT !.op = "chmod", !.path = p]
    /\ nCalls' = nCalls + 1
    /\ UNCHANGED <<cache, prev, nInserted, parseVars, threadVars,
                   feedVars>>

NextCache ==
    \/ \E p \in Paths : Parse(p)
    \/ \E k \in {_PARSE_CACHE_MAX - 1, _PARSE_CACHE_MAX} :
         ParseOthers(k)
    \/ \E p \in Live, m \in Mtimes, c \in Contents : Write(p, m, c)
    \/ \E p \in Live : Delete(p)
    \/ \E p \in Live : Chmod(p)

SpecCache == InitCache /\ [][NextCache]_vars

-----------------------------------------------------------------------------
(* SpecThreads: parse() called from several threads of one process.  parse() *)
(* takes no lock, so a thread switch may fall between any two of its        *)
(* statements; each statement on _parse_cache is one step.                  *)

MaxThreads == 2      \* threads calling parse()
MaxStarts == 4       \* parse() calls and file modifications of a run

Threads == 1..MaxThreads

NoKey == <<<<"", 0>>, 0>>

\* The locals of a call: p and mtime (key), session, stale_keys, oldest.
\* outcome is the result of the call; normalized and changed are history:
\* the call has run a normalizer, the file was modified after that.
Idle == [pc |-> "idle", path |-> <<"", 0>>, mtime |-> 0,
         session |-> NoSession, stale_keys |-> <<>>, oldest |-> NoKey,
         outcome |-> "", normalized |-> FALSE, changed |-> FALSE]

Key(t) == <<callers[t].path, callers[t].mtime>>

Goto(t, next_pc) == callers' = [callers EXCEPT ![t].pc = next_pc]

Raise(t, exception) ==
    callers' = [callers EXCEPT ![t].pc = "raised", ![t].outcome = exception]

cache_del(c, key) == SelectSeq(c, LAMBDA e : e.key # key)

InitThreads ==
    /\ fs = [p \in Paths |-> OnDisk(1, ContentA)]
    /\ cache = <<>>
    /\ callers = [t \in Threads |-> Idle]
    /\ feed = <<>>
    /\ last = NoCall
    /\ prev = [p \in Paths |-> NeverParsed]
    /\ nInserted = 0 /\ nCalls = 0
    /\ file = NoFile /\ pc = "call" /\ fmt = "" /\ cursor = <<1, 1>>
    /\ session = NoSession
    /\ seen_request_ids = {} /\ request_tokens_assigned = {} /\ ledger = <<>>

\* k sequential parse() calls for k other transcripts, before the threads run.
Prefill(k) ==
    /\ nCalls = 0
    /\ \A t \in Threads : callers[t].pc = "idle"
    /\ cache' = parse_others(cache, 1, k, 0)
    /\ nInserted' = k
    /\ nCalls' = nCalls + 1
    /\ UNCHANGED <<fs, last, prev, callers, parseVars, feedVars>>

\* Lines 96-101: resolve, stat, key.
Start(t, p) ==
    /\ nCalls < MaxStarts
    /\ callers[t].pc \in {"idle", "returned", "raised"}
    /\ callers' = [callers EXCEPT ![t] =
                     [Idle EXCEPT !.pc = "lookup", !.path = p,
                                  !.mtime = stat_mtime(fs[p])]]
    /\ nCalls' = nCalls + 1
    /\ UNCHANGED <<fs, cache, last, prev, nInserted, parseVars,
                   feedVars>>

\* Lines 103-105: _parse_cache.get(key).
Lookup(t) ==
    /\ callers[t].pc = "lookup"
    /\ callers' =
         IF cache_has(cache, Key(t))
         THEN [callers EXCEPT ![t].pc = "returned", ![t].outcome = "hit",
                              ![t].session = cache_get(cache, Key(t))]
         ELSE [callers EXCEPT ![t].pc = "normalize"]
    /\ UNCHANGED <<fs, cache, last, prev, nInserted, nCalls, parseVars,
                   feedVars>>

\* Lines 107-113: detection and normalization of the file as it is now.
Normalize(t) ==
    /\ callers[t].pc = "normalize"
    /\ LET st == fs[callers[t].path]
           r == normalize(st.content)
       IN
       IF ~st.exists THEN Raise(t, "FileNotFoundError")
       ELSE IF ~st.readable THEN Raise(t, "PermissionError")
       ELSE IF r.exc # "" THEN Raise(t, r.exc)
       ELSE callers' = [callers EXCEPT ![t].pc = "stale",
                                       ![t].session = r.session,
                                       ![t].normalized = TRUE]
    /\ UNCHANGED <<fs, cache, last, prev, nInserted, nCalls, parseVars,
                   feedVars>>

\* Line 116: stale_keys = the keys of the path with another mtime.
StaleKeys(t) ==
    /\ callers[t].pc = "stale"
    /\ LET stale == SelectSeq(cache, LAMBDA e : /\ e.key[1] = callers[t].path
                                                /\ e.key[2] # callers[t].mtime)
           keys == [i \in 1..Len(stale) |-> stale[i].key]
       IN callers' = [callers EXCEPT
                        ![t].stale_keys = keys,
                        ![t].pc = IF keys = <<>> THEN "size" ELSE "purge"]
    /\ UNCHANGED <<fs, cache, last, prev, nInserted, nCalls, parseVars,
                   feedVars>>

\* Lines 117-118: del _parse_cache[sk] for the next stale key.
PurgeOne(t) ==
    /\ callers[t].pc = "purge"
    /\ LET sk == Head(callers[t].stale_keys) IN
       IF cache_has(cache, sk)
       THEN /\ cache' = cache_del(cache, sk)
            /\ callers' = [callers EXCEPT
                             ![t].stale_keys = Tail(@),
                             ![t].pc = IF Tail(callers[t].stale_keys) = <<>>
                                       THEN "size" ELSE "purge"]
       ELSE /\ Raise(t, "KeyError")
            /\ cache' = cache
    /\ UNCHANGED <<fs, last, prev, nInserted, nCalls, parseVars,
                   feedVars>>

\* Line 120: len(_parse_cache) >= _PARSE_CACHE_MAX.
SizeCheck(t) ==
    /\ callers[t].pc = "size"
    /\ Goto(t, IF Len(cache) >= _PARSE_CACHE_MAX THEN "oldest" ELSE "insert")
    /\ UNCHANGED <<fs, cache, last, prev, nInserted, nCalls, parseVars,
                   feedVars>>

\* Line 121: oldest = next(iter(_parse_cache)).
Oldest(t) ==
    /\ callers[t].pc = "oldest"
    /\ IF cache = <<>> THEN Raise(t, "StopIteration")
       ELSE callers' = [callers EXCEPT ![t].oldest = cache[1].key,
                                       ![t].pc = "evict"]
    /\ UNCHANGED <<fs, cache, last, prev, nInserted, nCalls, parseVars,
                   feedVars>>

\* Line 122: del _parse_cache[oldest].
Evict(t) ==
    /\ callers[t].pc = "evict"
    /\ IF cache_has(cache, callers[t].oldest)
       THEN /\ cache' = cache_del(cache, callers[t].oldest)
            /\ Goto(t, "insert")
       ELSE /\ Raise(t, "KeyError")
            /\ cache' = cache
    /\ UNCHANGED <<fs, last, prev, nInserted, nCalls, parseVars,
                   feedVars>>

\* Lines 123-124: _parse_cache[key] = session; return session.
Insert(t) ==
    /\ callers[t].pc = "insert"
    /\ cache' = cache_put(cache, Key(t), callers[t].session, nInserted + 1)
    /\ nInserted' = nInserted + 1
    /\ callers' = [callers EXCEPT ![t].pc = "returned", ![t].outcome = "miss"]
    /\ UNCHANGED <<fs, last, prev, nCalls, parseVars, feedVars>>

\* The environment rewrites the file while calls are running.
Modify(p, m) ==
    /\ nCalls < MaxStarts
    /\ m # fs[p].mtime
    /\ fs' = [fs EXCEPT ![p] = OnDisk(m, ContentB)]
    /\ callers' = [t \in Threads |->
                     IF callers[t].path = p /\ callers[t].normalized
                     THEN [callers[t] EXCEPT !.changed = TRUE]
                     ELSE callers[t]]
    /\ nCalls' = nCalls + 1
    /\ UNCHANGED <<cache, last, prev, nInserted, parseVars, feedVars>>

NextThreads ==
    \/ \E k \in {_PARSE_CACHE_MAX - 1, _PARSE_CACHE_MAX} : Prefill(k)
    \/ \E t \in Threads, p \in Paths : Start(t, p)
    \/ \E t \in Threads : Lookup(t)
    \/ \E t \in Threads : Normalize(t)
    \/ \E t \in Threads : StaleKeys(t)
    \/ \E t \in Threads : PurgeOne(t)
    \/ \E t \in Threads : SizeCheck(t)
    \/ \E t \in Threads : Oldest(t)
    \/ \E t \in Threads : Evict(t)
    \/ \E t \in Threads : Insert(t)
    \/ \E p \in Paths, m \in Mtimes : Modify(p, m)

SpecThreads == InitThreads /\ [][NextThreads]_vars

-----------------------------------------------------------------------------
(* SpecFeed: ws_session, the live feed of one session (server.py): a 'full' *)
(* message, then a 'delta' message for each detected change that made the   *)
(* event list longer.                                                        *)

MaxChanges == 3      \* modifications of the file during one connection
MaxFeedLines == 3    \* lines of the file the feed watches

FeedPath == <<"p", 1>>

\* What the writer of the transcript appends: tool calls, and a record that
\* yields no event.
FeedRecs ==
    {CodexItem(ts, "function_call", "", "shell") : ts \in TS}
    \cup {[R0 EXCEPT !.type = "event_msg", !.ptype = "token_count",
                     !.usage = <<1, 1, 0>>]}

Transcript(lines) ==
    [suffix |-> ".jsonl", stem |-> "s0", dirs |-> NoDirs, lines |-> lines]

\* _file_hash: "size:mtime", "" when the stat fails.  The number of lines
\* stands for the size.
_file_hash(st) ==
    IF st.exists THEN <<Len(st.content.lines), st.mtime>> ELSE <<>>

\* What a message carries of each event.
to_dict(events) ==
    [i \in 1..Len(events) |->
        [timestamp |-> events[i].timestamp, type |-> events[i].type,
         agent_id |-> events[i].agent_id, tool_name |-> events[i].tool_name]]

\* Line 167: session.events[last_count:].
events_from(events, last_count) ==
    SubSeq(to_dict(events), last_count + 1, Len(events))

\* The locals of the handler (pc, last_count, last_hash) and history:
\*   sent      the events of the messages sent so far, in order
\*   latest    the events of the most recent parse that produced a message
\*   messages  the number of messages sent
\*   in_order  every change so far appended a record that sorts last
NoFeed == [pc |-> "accept", last_count |-> 0, last_hash |-> <<>>,
           sent |-> <<>>, latest |-> <<>>, messages |-> 0, in_order |-> TRUE]

InitFeed ==
    /\ \E r \in FeedRecs : fs = [p \in Paths |-> OnDisk(1, Transcript(<<r>>))]
    /\ feed = NoFeed
    /\ cache = <<>>
    /\ callers = <<>>
    /\ last = NoCall
    /\ prev = [p \in Paths |-> NeverParsed]
    /\ nInserted = 0 /\ nCalls = 0
    /\ file = NoFile /\ pc = "call" /\ fmt = "" /\ cursor = <<1, 1>>
    /\ session = NoSession
    /\ seen_request_ids = {} /\ request_tokens_assigned = {} /\ ledger = <<>>

\* Lines 134-155: accept, resolve the path, parse, send the 'full' message.
\* An exception of parse() leaves the handler.
Accept ==
    /\ feed.pc = "accept"
    /\ LET r == parse(cache, FeedPath, fs[FeedPath], nInserted + 1) IN
       IF ~fs[FeedPath].exists
       THEN /\ feed' = [feed EXCEPT !.pc = "closed"]
            /\ UNCHANGED <<cache, nInserted>>
       ELSE /\ cache' = r.cache
            /\ nInserted' = IF r.outcome = "miss" THEN nInserted + 1
                            ELSE nInserted
            /\ feed' = IF r.outcome \in {"hit", "miss"}
                       THEN [feed EXCEPT !.pc = "hash",
                                         !.sent = to_dict(r.session.events),
                                         !.latest = to_dict(r.session.events),
                                         !.messages = 1]
                       ELSE [feed EXCEPT !.pc = "closed"]
    /\ UNCHANGED <<fs, last, prev, nCalls, callers, parseVars>>

\* Lines 156-157, after the await of the send: last_count from the parsed
\* session, last_hash from the file as it is now.
TakeHash ==
    /\ feed.pc = "hash"
    /\ feed' = [feed EXCEPT !.pc = "sleep",
                            !.last_count = Len(feed.latest),
                            !.last_hash = _file_hash(fs[FeedPath])]
    /\ UNCHANGED <<fs, cache, last, prev, nInserted, nCalls, callers,
                   parseVars>>

\* Lines 161-176: one round of the polling loop.  An exception of parse()
\* ends the loop silently (line 179).
Poll ==
    /\ feed.pc = "sleep"
    /\ _file_hash(fs[FeedPath]) # feed.last_hash
    /\ LET r == parse(cache, FeedPath, fs[FeedPath], nInserted + 1)
           polled == [feed EXCEPT !.last_hash = _file_hash(fs[FeedPath])]
       IN
       /\ cache' = r.cache
       /\ nInserted' = IF r.outcome = "miss" THEN nInserted + 1 ELSE nInserted
       /\ feed' =
            IF r.outcome \notin {"hit", "miss"}
            THEN [polled EXCEPT !.pc = "closed"]
            ELSE IF Len(r.session.events) > feed.last_count
            THEN [polled EXCEPT
                    !.sent = @ \o events_from(r.session.events, feed.last_count),
                    !.latest = to_dict(r.session.events),
                    !.messages = @ + 1,
                    !.last_count = Len(r.session.events)]
            ELSE polled
    /\ UNCHANGED <<fs, last, prev, nCalls, callers, parseVars>>

\* Lines 177-178: the client went away.
Disconnect ==
    /\ feed.pc = "sleep"
    /\ feed' = [feed EXCEPT !.pc = "closed"]
    /\ UNCHANGED <<fs, cache, last, prev, nInserted, nCalls, callers,
                   parseVars>>

\* The largest timestamp of the event records of the file.
RECURSIVE MaxTs(_)
MaxTs(lines) ==
    IF lines = <<>> THEN 0
    ELSE LET m == MaxTs(Tail(lines)) IN
         IF Head(lines).type = "response_item" /\ Head(lines).ts > m
         THEN Head(lines).ts ELSE m

\* The writer appends a record to the transcript.
FeedAppend(rec) ==
    /\ nCalls < MaxChanges
    /\ feed.pc # "closed"
    /\ fs[FeedPath].exists
    /\ Len(fs[FeedPath].content.lines) < MaxFeedLines
    /\ fs' = [fs EXCEPT
                ![FeedPath].content.lines = Append(@, rec),
                ![FeedPath].mtime = @ + 1]
    /\ feed' = [feed EXCEPT
                  !.in_order = @ /\ (rec.type = "response_item" =>
                                        rec.ts >= MaxTs(fs[FeedPath].content.lines))]
    /\ nCalls' = nCalls + 1
    /\ UNCHANGED <<cache, last, prev, nInserted, callers, parseVars>>

\* The transcript is replaced by another one.
FeedRewrite(rec) ==
    /\ nCalls < MaxChanges
    /\ feed.pc # "closed"
    /\ fs[FeedPath].exists
    /\ fs' = [fs EXCEPT
                ![FeedPath].content.lines = <<rec>>,
                ![FeedPath].mtime = @ + 1]
    /\ feed' = [feed EXCEPT !.in_order = FALSE]
    /\ nCalls' = nCalls + 1
    /\ UNCHANGED <<cache, last, prev, nInserted, callers, parseVars>>

\* The transcript is deleted.
FeedDelete ==
    /\ nCalls < MaxChanges
    /\ feed.pc # "closed"
    /\ fs[FeedPath].exists
    /\ fs' = [fs EXCEPT ![FeedPath] = Missing]
    /\ nCalls' = nCalls + 1
    /\ UNCHANGED <<feed, cache, last, prev, nInserted, callers, parseVars>>

NextFeed ==
    \/ Accept
    \/ TakeHash
    \/ Poll
    \/ Disconnect
    \/ \E rec \in FeedRecs : FeedAppend(rec)
    \/ \E rec \in FeedRecs : FeedRewrite(rec)
    \/ FeedDelete

SpecFeed == InitFeed /\ [][NextFeed]_vars

-----------------------------------------------------------------------------
(* Properties of one parse (SpecParse) *)

Returned == pc = "done"
Ev == session.events

\* Sum of component c over a sequence of token triples.
RECURSIVE SumAt(_, _)
SumAt(triples, c) ==
    IF triples = <<>> THEN 0 ELSE Head(triples)[c] + SumAt(Tail(triples), c)

Tokens(e) == <<e.input_tokens, e.output_tokens, e.cache_read_tokens>>
Annotated(e) == Tokens(e) # <<0, 0, 0>>

\* C1: in every dialect the events of a returned Session are in
\* non-decreasing timestamp order, events with equal timestamps keep the
\* order in which they were produced (main file first, then the sub-agent
\* files in discovery order), and every produced event is present once.
C1_SortedStable ==
    Returned =>
        /\ \A i, j \in 1..Len(Ev) :
             i < j =>
               /\ Ev[i].timestamp <= Ev[j].timestamp
               /\ Ev[i].timestamp = Ev[j].timestamp =>
                    /\ Ev[i].seq < Ev[j].seq
                    /\ Ev[i].src <= Ev[j].src
        /\ \A k \in 1..Len(Ev) : \E i \in 1..Len(Ev) : Ev[i].seq = k

\* A merged session in which the sort moved an event and two events of
\* different files share a timestamp.
C1_Witness ==
    /\ Returned /\ fmt = "claude_code"
    /\ \E i, j \in 1..Len(Ev) : i < j /\ Ev[i].seq > Ev[j].seq
    /\ \E i, j \in 1..Len(Ev) :
         i < j /\ Ev[i].timestamp = Ev[j].timestamp /\ Ev[i].src # Ev[j].src

\* The request identifiers of the assistant records processed for an agent.
RequestsOf(agent_id) ==
    {sources(file)[k].lines[i].requestId :
        <<k, i>> \in {c \in (1..Len(sources(file))) \X (1..MaxLines + 1) :
                        /\ sources(file)[c[1]].agent_id = agent_id
                        /\ c[2] <= Len(sources(file)[c[1]].lines)
                        /\ sources(file)[c[1]].lines[c[2]].type = "assistant"}}
    \ {""}

EventsOf(agent_id, request_id) ==
    SelectSeq(Ev, LAMBDA e : e.agent_id = agent_id /\ e.request_id = request_id)
AddedFor(agent_id, request_id) ==
    SelectSeq(ledger, LAMBDA a : a.agent_id = agent_id
                                  /\ a.request_id = request_id)

\* C5: (claude_code) for every request identifier in the records of an
\* agent, the token fields summed over the events of that identifier equal
\* what was added to the agent's counters for it, and exactly one of those
\* events carries the non-zero values.
C5_EventTokensEqualAgentDelta ==
    (Returned /\ fmt = "claude_code") =>
        \A a \in DOMAIN session.agents : \A r \in RequestsOf(a) :
            /\ \A c \in 1..3 :
                 SumAt([i \in 1..Len(EventsOf(a, r)) |->
                            Tokens(EventsOf(a, r)[i])], c)
                    = SumAt([i \in 1..Len(AddedFor(a, r)) |->
                               AddedFor(a, r)[i].toks], c)
            /\ Cardinality({i \in 1..Len(EventsOf(a, r)) :
                              Annotated(EventsOf(a, r)[i])}) = 1

\* C6: usage reported with a request identifier is added to the owning
\* agent's counters exactly once per distinct identifier during one parse,
\* whatever sub-agent files are discovered.
C6_AddedOncePerRequest ==
    /\ \A i, j \in 1..Len(ledger) :
         (/\ i # j
          /\ ledger[i].request_id # ""
          /\ ledger[i].agent_id = ledger[j].agent_id)
            => ledger[i].request_id # ledger[j].request_id
    /\ (Returned /\ fmt = "claude_code") =>
         \A a \in DOMAIN session.agents : \A r \in RequestsOf(a) :
            Len(AddedFor(a, r)) = 1

\* At most one event of the sequence is annotated, it is the first
\* qualifying (thinking or tool_use) event, and every later one carries zero.
AnnotatedOnce(evs) ==
    \A i \in 1..Len(evs) :
        Annotated(evs[i]) =>
            \A j \in 1..Len(evs) :
                j # i =>
                    /\ ~Annotated(evs[j])
                    /\ evs[j].type # "text" => evs[i].seq < evs[j].seq

RequestIds == {"r1", "r2"}

Perms(seq) ==
    {[i \in 1..Len(seq) |-> seq[f[i]]] :
        f \in {g \in [1..Len(seq) -> 1..Len(seq)] :
                 \A a, b \in 1..Len(seq) : a # b => g[a] # g[b]}}

TheDir == CHOOSE d \in DOMAIN file.dirs : TRUE
NonEmptySubs == SelectSeq(discover(file), LAMBDA sf : _read_jsonl(sf.lines) # <<>>)
SubRec == NonEmptySubs[1].lines[1]
SubId == IF SubRec.agentId # "" THEN SubRec.agentId ELSE NonEmptySubs[1].stem

\* A main file with two event records at t1 and t3 (in either file order)
\* and, among the companion files, one file with one event record at t2,
\* t1 < t2 < t3.
MergeScenario ==
    /\ Len(file.lines) = 2
    /\ \A i \in 1..2 : file.lines[i] \in CCMergeRecs
    /\ file.lines[1].ts # file.lines[2].ts
    /\ Len(NonEmptySubs) = 1
    /\ SubRec.json = "dict"
    /\ \E i, j \in 1..2 : /\ file.lines[i].ts < SubRec.ts
                          /\ SubRec.ts < file.lines[j].ts

View(events) ==
    [i \in 1..Len(events) |->
        <<events[i].timestamp, events[i].agent_id, events[i].type>>]

\* C8: main events at t1 and t3 and a sub-agent event at t2 merge to
\* [t1, t2, t3], the first and last owned by 'main', the middle one by the
\* sub-agent registered for the companion file; listing the companion files
\* in another order gives the same events.
C8_MergeOrder ==
    (Returned /\ MergeScenario) =>
        /\ Len(Ev) = 3
        /\ Ev[1].timestamp < Ev[2].timestamp /\ Ev[2].timestamp < Ev[3].timestamp
        /\ Ev[2].timestamp = SubRec.ts
        /\ Ev[1].agent_id = "main" /\ Ev[3].agent_id = "main"
        /\ Ev[2].agent_id = SubId
        /\ session.agents[SubId].is_subagent
        /\ \A l \in Perms(file.dirs[TheDir]) :
             LET g == [file EXCEPT !.dirs = [d \in {TheDir} |-> l]] IN
             /\ parse_claude_code(g).exc = ""
             /\ View(parse_claude_code(g).session.events) = View(Ev)

\* The scenario with the main file written t3 first and the sub-agent's
\* file listed after an empty one.
C8_Witness ==
    /\ Returned /\ MergeScenario
    /\ file.lines[1].ts > file.lines[2].ts
    /\ Len(discover(file)) = 2
    /\ discover(file)[1].lines = <<>>
    /\ SubId # "main"

\* The three-line codex transcript with timestamps in file order.
IsRollout ==
    \E t0 \in TS, t1 \in TS, t2 \in TS :
        t0 <= t1 /\ t1 <= t2 /\ file = CodexRollout(t0, t1, t2)

\* C14: session_meta, a 'shell' function_call and a function_call_output,
\* timestamps in that order, give a Session that starts at the session_meta
\* timestamp, has the one agent 'main' and exactly two events: bash, then
\* tool_result.
C14_CodexRollout ==
    (Returned /\ IsRollout) =>
        /\ fmt = "codex"
        /\ session.start_time = file.lines[1].ts
        /\ DOMAIN session.agents = {"main"}
        /\ Len(Ev) = 2
        /\ Ev[1].type = "bash" /\ Ev[1].timestamp = file.lines[2].ts
        /\ Ev[2].type = "tool_result" /\ Ev[2].timestamp = file.lines[3].ts

\* The rollout with three distinct timestamps has been normalized.
C14_Witness ==
    /\ Returned /\ IsRollout
    /\ file.lines[1].ts < file.lines[2].ts /\ file.lines[2].ts < file.lines[3].ts
    /\ Len(Ev) = 2 /\ Ev[1].tool_name = "shell"

\* The start times the source itself records (0 = none): session_meta of
\* codex, session_metadata or the document's startTime of gemini; a
\* claude_code transcript has no such record.
RecordedStarts ==
    LET recs == _read_jsonl(file.lines)
        of(type) == {i \in 1..Len(recs) : recs[i].json = "dict" /\ recs[i].type = type}
    IN
    (CASE fmt = "codex" -> {recs[i].ts : i \in of("session_meta")}
       [] fmt = "gemini" /\ file.suffix = ".json" ->
            {json_load(file.lines).data.startTime}
       [] fmt = "gemini" /\ file.suffix # ".json" ->
            {IF recs[i].startTime # 0 THEN recs[i].startTime ELSE recs[i].ts :
                i \in of("session_metadata")}
       [] OTHER -> {}) \ {0}

StartTimeResolved ==
    IF RecordedStarts # {} THEN session.start_time \in RecordedStarts
    ELSE IF Ev # <<>> THEN session.start_time = Ev[1].timestamp
    ELSE session.start_time = 0

\* C15: in every dialect the start time of a returned Session is the start
\* the source records, and without one the timestamp of the earliest event
\* of the merged, sorted event list.
C15_StartTime == Returned => StartTimeResolved

\* C15 for the two single-agent dialects.
C15_StartTimeSingleAgent ==
    (Returned /\ fmt \in {"codex", "gemini"}) => StartTimeResolved

\* C16: once registered, the agents of a claude_code parse are neither
\* removed nor replaced: one Agent per non-empty companion file besides the
\* eagerly created 'main', which stays the non-sub-agent Agent "Main".
C16_AgentsKept ==
    (fmt = "claude_code" /\ pc \in {"cc_lines", "done"}) =>
        /\ ~session.agents["main"].is_subagent
        /\ session.agents["main"].name = "Main"
        /\ Cardinality(DOMAIN session.agents) = 1 + Len(NonEmptySubs)

\* The usage of the records that carry usage without a request identifier,
\* in processing order.
RECURSIVE IdlessUsage(_, _)
IdlessUsage(recs, i) ==
    IF i > Len(recs) THEN <<>>
    ELSE (IF /\ recs[i].json = "dict"
             /\ \/ fmt = "claude_code" /\ recs[i].type = "assistant"
                                       /\ recs[i].requestId = ""
                \/ fmt = "codex" /\ recs[i].type = "event_msg"
                                 /\ recs[i].ptype = "token_count"
                \/ fmt = "gemini" /\ file.suffix # ".json"
                                  /\ recs[i].type = "message_update"
          THEN <<recs[i].usage>> ELSE <<>>) \o IdlessUsage(recs, i + 1)

RECURSIVE AllRecords(_, _)
AllRecords(srcs, k) ==
    IF k > Len(srcs) THEN <<>> ELSE srcs[k].lines \o AllRecords(srcs, k + 1)

IdlessAdded == SelectSeq(ledger, LAMBDA a : a.request_id = "")

\* C17: every usage-bearing record without a request identifier adds its
\* own delta to the owning agent's counters, in every dialect.
C17_IdlessUsageAdded ==
    Returned =>
        LET us == IdlessUsage(IF fmt = "claude_code"
                              THEN AllRecords(sources(file), 1)
                              ELSE _read_jsonl(file.lines), 1)
        IN
        /\ Len(IdlessAdded) = Len(us)
        /\ \A c \in 1..2 :
             SumAt([i \in 1..Len(IdlessAdded) |-> IdlessAdded[i].toks], c)
                = SumAt(us, c)

\* C17 for the dialects whose usage records never carry an identifier.
C17_IdlessUsageAddedSingleAgent ==
    (fmt \in {"codex", "gemini"}) => C17_IdlessUsageAdded

\* The usage of the token_count records of a codex file, in file order.
TokenCounts ==
    LET recs == SelectSeq(_read_jsonl(file.lines),
                          LAMBDA r : /\ r.json = "dict" /\ r.type = "event_msg"
                                     /\ r.ptype = "token_count")
    IN [i \in 1..Len(recs) |-> recs[i].usage]

Counters(agent) ==
    <<agent.input_tokens, agent.output_tokens, agent.cache_read_tokens>>

\* C18: after a codex normalization each counter of the main agent is the
\* sum of the corresponding deltas over all token_count records of the
\* file, equal ones included.
C18_CodexCountersAreSums ==
    (Returned /\ fmt = "codex") =>
        \A c \in 1..3 :
            Counters(session.agents["main"])[c] = SumAt(TokenCounts, c)

\* A codex file with two token_count records of the same values.
C18_Witness ==
    /\ Returned /\ fmt = "codex"
    /\ Len(TokenCounts) = 2 /\ TokenCounts[1] = TokenCounts[2]
    /\ Counters(session.agents["main"])[1] = 2 * TokenCounts[1][1]
    /\ TokenCounts[1][1] > 0

\* The conversation of a Gemini JSON document in the line-delimited layout:
\* one record per message ('user' for role user, 'gemini' for role model),
\* the same timestamp, the parts as the content blocks.
AsJsonl(f) ==
    LET ms == json_load(f.lines).data.messages IN
    [f EXCEPT
        !.suffix = ".jsonl",
        !.lines = [i \in 1..Len(ms) |->
                     GeminiLine(IF ms[i].role = "user" THEN "user" ELSE "gemini",
                                ms[i].ts, ms[i].parts)]]

IsConversation(f) ==
    /\ f.suffix = ".json"
    /\ json_load(f.lines).ok
    /\ json_load(f.lines).data.json = "dict"
    /\ json_load(f.lines).data.messages # <<>>

Shape(events) ==
    [i \in 1..Len(events) |->
        <<events[i].timestamp, events[i].type, events[i].agent_id,
          events[i].tool_name>>]

\* The parts of the conversation that hold a functionCall / functionResponse.
CallParts(f) ==
    LET ms == json_load(f.lines).data.messages IN
    {<<i, j>> \in (1..Len(ms)) \X (1..1) : ms[i].parts[j].fc # ""}
ResponseParts(f) ==
    LET ms == json_load(f.lines).data.messages IN
    {<<i, j>> \in (1..Len(ms)) \X (1..1) : ms[i].parts[j].fr}

ToolEvents(events) ==
    {i \in 1..Len(events) : events[i].tool_name # ""}
ResultEvents(events) ==
    {i \in 1..Len(events) : events[i].type = "tool_result"}

\* C21: one gemini conversation stored as a JSON document and as the
\* line-delimited variant normalizes to the same sequence of events (types,
\* owners, tool names, timestamps, order) and the same Agent; in both
\* layouts each functionCall yields a tool-invocation event and each
\* functionResponse a tool_result event.
C21_LayoutsAgree ==
    (Returned /\ IsConversation(file)) =>
        LET other == normalize(AsJsonl(file)) IN
        /\ other.exc = ""
        /\ Shape(other.session.events) = Shape(Ev)
        /\ other.session.agents = session.agents
        /\ Cardinality(ToolEvents(other.session.events))
             = Cardinality(CallParts(file))
        /\ Cardinality(ResultEvents(other.session.events))
             = Cardinality(ResponseParts(file))

ContentBounded(e) ==
    /\ e.type = "tool_result" => e.content <= 2000
    /\ e.tool_name # "" => e.content <= 500

\* C22: in every dialect the content of a tool-result event has at most
\* 2000 characters and the content of a tool-invocation event at most 500,
\* whatever the length of the source payload.
C22_ContentTruncated ==
    \A i \in 1..Len(Ev) : ContentBounded(Ev[i])

\* C22 for the codex and gemini dialects.
C22_ContentTruncatedSingleAgent ==
    fmt \in {"codex", "gemini"} => \A i \in 1..Len(Ev) : ContentBounded(Ev[i])

\* The index of the first line that is an object matching a dialect marker
\* (0 = no line does).
FirstMarker(lines) ==
    LET M == {i \in 1..Len(lines) :
                lines[i].json = "dict" /\ detect_line(lines[i]) # ""}
    IN IF M = {} THEN 0 ELSE CHOOSE i \in M : \A j \in M : i <= j

\* Records that may follow the deciding one.
FollowRecs ==
    {ListLine, Unknown, CCUser(1), UserWithContent(""),
     [R0 EXCEPT !.type = "session_meta", !.ts = 2]}

FirstMarkerDecides(f, d) ==
    LET i == FirstMarker(f.lines)
        rec == f.lines[i]
    IN
    /\ d = detect_line(rec)
    /\ \A tail \in SeqsUpTo(FollowRecs, 2) :
         auto_detect([f EXCEPT !.lines = SubSeq(f.lines, 1, i) \o tail]) = d
    /\ (rec.type = "user" /\ rec.hasContent) =>
         d = IF rec.sessionId # "" THEN "claude_code" ELSE "gemini"

\* C23: line scanning is decided by the first record that matches a
\* dialect marker: the records before it that match none are skipped, the
\* records after it do not matter, and a 'user' record with a content field
\* is claude_code with a sessionId and gemini without.
C23_FirstMarkerDecides ==
    (pc # "call" /\ ~detect_json(file) /\ FirstMarker(file.lines) # 0) =>
        FirstMarkerDecides(file, fmt)

\* C23 for files in which every line before the deciding record is a JSON
\* object or is malformed.
C23_FirstMarkerDecidesAfterObjects ==
    (/\ pc # "call" /\ ~detect_json(file) /\ FirstMarker(file.lines) # 0
     /\ \A j \in 1..FirstMarker(file.lines) : file.lines[j].json # "list")
    => FirstMarkerDecides(file, fmt)

\* A line that is not JSON or not a JSON object.
Malformed(rec) == rec.json # "dict"

\* A codex response_item that lacks what its branch reads: the item, or
\* the timestamp and the name of a function_call item.
Lacking(rec) ==
    /\ rec.json = "dict"
    /\ rec.type = "response_item"
    /\ \/ rec.item = ""
       \/ rec.item = "function_call" /\ rec.ts = 0 /\ rec.name = ""

Without(f, Skipped(_)) ==
    [f EXCEPT !.lines = SelectSeq(f.lines, LAMBDA r : ~Skipped(r))]

SameSession(s, t) ==
    /\ Shape(s.events) = Shape(t.events)
    /\ s.agents = t.agents
    /\ s.start_time = t.start_time
    /\ s.id = t.id

SkippedChangeNothing(Skipped(_)) ==
    (/\ pc \in {"done", "raised"}
     /\ \E i \in 1..Len(file.lines) : Skipped(file.lines[i])
     /\ normalize(Without(file, Skipped)).exc = "")
    => /\ pc = "done"
       /\ SameSession(session, normalize(Without(file, Skipped)).session)

MalformedOrLacking(rec) == Malformed(rec) \/ Lacking(rec)
NotJson(rec) == rec.json = "bad"

\* C24: a malformed line, or a record that lacks the fields its branch
\* needs, contributes no event and changes nothing else: the file
\* normalizes to the Session (events in order, agents with their counters,
\* start, id) of the file without those lines, and the parse does not fail.
C24_SkippedChangeNothing == SkippedChangeNothing(MalformedOrLacking)

\* C24 for the lines that are not JSON at all (dropped by _read_jsonl), in
\* files read line by line.
C24_UnreadableLinesChangeNothing ==
    file.suffix = ".jsonl" => SkippedChangeNothing(NotJson)

\* C24 for the records that lack fields, the file holding only objects.
C24_LackingChangeNothing ==
    (\A i \in 1..Len(file.lines) : ~Malformed(file.lines[i]))
        => SkippedChangeNothing(Lacking)

\* The agent id registered for the file that _process_lines call k read
\* (call 1 reads the main file; the single-agent dialects number it 0).
RegisteredFor(k) ==
    IF k <= 1 THEN "main"
    ELSE register_agents(file).subagent_events[k - 1].agent_id

\* C25: in every returned Session the owner of every event is a key of the
\* agent map: 'main' for the events of the main file, the id registered for
\* the companion file for the events of that file.
C25_OwnersAreAgents ==
    Returned =>
        \A i \in 1..Len(Ev) :
            /\ Ev[i].agent_id \in DOMAIN session.agents
            /\ session.agents[Ev[i].agent_id].id = Ev[i].agent_id
            /\ Ev[i].agent_id = RegisteredFor(Ev[i].src)

\* A merged session with an event of the main file and events of two
\* companion files, one registered under its own agentId and one under the
\* name of its file.
C25_Witness ==
    /\ Returned /\ fmt = "claude_code"
    /\ Cardinality(DOMAIN session.agents) >= 2
    /\ \E i, j, k \in 1..Len(Ev) :
         /\ Ev[i].src = 1 /\ Ev[j].src = 2 /\ Ev[k].src = 3
         /\ Ev[j].agent_id = "main" /\ Ev[k].agent_id = "a2"

\* C9: parse() of a readable file returns a Session whatever the content.
C9_NeverRaises == pc # "raised"

\* No line of the file matches a dialect marker.
NoMarker(f) ==
    \A i \in 1..Len(f.lines) :
        f.lines[i].json = "bad" \/ detect_line(f.lines[i]) = ""

\* C10: a line-delimited file without any dialect marker is classified
\* 'codex' and detection does not raise.
C10_FallbackCodex ==
    (pc # "call" /\ file.suffix = ".jsonl" /\ NoMarker(file)) => fmt = "codex"

-----------------------------------------------------------------------------
(* Properties of the cache (SpecCache) *)

ReturnedCall(l) == l.op = "parse" /\ l.outcome \in {"hit", "miss"}

\* C2: a parse() that directly follows a returned parse() of the same path,
\* the file not modified in between, is a cache hit: it returns the same
\* Session, runs neither detection nor a normalizer and leaves the cache
\* (keys, values, order) as it was.
C2_RepeatedCallIsHit ==
    [][(/\ ReturnedCall(last)
        /\ last'.op = "parse" /\ last'.path = last.path
        /\ nCalls' = nCalls + 1)
       => (/\ last'.outcome = "hit"
           /\ last'.session = last.session
           /\ ~last'.detected
           /\ cache' = cache)]_vars

\* The second of two parse() calls, made after a first one that had to
\* normalize the file.
C2_Witness ==
    /\ nCalls = 2
    /\ last.op = "parse" /\ last.outcome = "hit"
    /\ last.before.parsed /\ last.before.st = fs[last.path]
    /\ Len(cache) = 1

\* C3: when content and mtime of a file changed between two parse() calls
\* of its path, the second call returns a Session of the new content and
\* the cache then holds no entry of the path with the old mtime.
C3_NewContentAfterChange ==
    (/\ ReturnedCall(last)
     /\ last.before.parsed
     /\ stat_mtime(last.before.st) # stat_mtime(fs[last.path])
     /\ last.before.st.content # fs[last.path].content)
    => /\ last.session = normalize(fs[last.path].content).session
       /\ ~cache_has(cache, <<last.path, stat_mtime(last.before.st)>>)

\* The statement of C3 for a second call whose predecessor returned a
\* Session (a predecessor that raised leaves the stale entries in place).
C3_AfterReturnedCall ==
    (/\ ReturnedCall(last)
     /\ last.before.parsed /\ last.before.returned
     /\ stat_mtime(last.before.st) # stat_mtime(fs[last.path])
     /\ last.before.st.content # fs[last.path].content)
    => /\ last.session = normalize(fs[last.path].content).session
       /\ ~cache_has(cache, <<last.path, stat_mtime(last.before.st)>>)

\* C13: the cache holds at most one entry per resolved path, and once a
\* parse() of a path has ended (returned or raised, the file present,
\* deleted or unreadable) the cache holds no entry of that path whose mtime
\* differs from the file's current one.
C13_OnePerPathStalePurged ==
    /\ \A i, j \in 1..Len(cache) : i # j => cache[i].key[1] # cache[j].key[1]
    /\ last.op = "parse" =>
         \A i \in 1..Len(cache) :
            cache[i].key[1] = last.path
                => cache[i].key[2] = stat_mtime(fs[last.path])

\* The first half of C13 alone.
C13_OnePerPath ==
    \A i, j \in 1..Len(cache) : i # j => cache[i].key[1] # cache[j].key[1]

\* C4: the cache never holds more than _PARSE_CACHE_MAX entries, and the
\* entry evicted for size is the earliest inserted of those present.
C4_BoundedOldestFirst ==
    /\ Len(cache) <= _PARSE_CACHE_MAX
    /\ (last.op = "parse" /\ last.evicted # <<>>) =>
         /\ Len(last.evicted) = 1
         /\ \A i \in 1..Len(cache) : cache[i].stamp > last.evicted[1].stamp

\* A parse() that found the cache full and evicted an entry.
C4_Witness ==
    /\ last.op = "parse" /\ last.evicted # <<>>
    /\ Len(cache) = _PARSE_CACHE_MAX

\* C19: eviction follows insertion order, not recency of use: a hit leaves
\* the cache as it is, and an eviction for size removes the entry inserted
\* before every other entry that stays, also when that entry was the one
\* returned by the call just before.
C19_EvictionIgnoresUse ==
    [][(last'.op = "parse" /\ nCalls' = nCalls + 1) =>
         /\ last'.outcome = "hit" => cache' = cache
         /\ last'.evicted # <<>> =>
              \A i \in 1..Len(cache') :
                 cache'[i].stamp > last'.evicted[1].stamp]_vars

\* A miss evicted the entry that the call just before had returned.
C19_Witness ==
    /\ last.op = "parse" /\ last.outcome = "miss"
    /\ last.evicted # <<>>
    /\ last.evicted[1].key[1] = last.hit_before

\* C20: when the stat of the path fails, parse() does not return a cached
\* Session: with mtime 0 it goes on to detection, which fails on the
\* missing file.
C20_StatFailureNeverHits ==
    (last.op = "parse" /\ ~fs[last.path].exists) =>
        /\ last.outcome # "hit"
        /\ last.outcome = "FileNotFoundError"

Raised(l) == l.op = "parse" /\ l.outcome \notin {"hit", "miss"}

\* C26: a parse() that raises (the file cannot be opened, or detection or
\* normalization fails) leaves the cache as it was before the call: no
\* entry inserted, purged or evicted.
C26_RaiseLeavesCache ==
    [][(Raised(last') /\ nCalls' = nCalls + 1) => cache' = cache]_vars

\* A call raised on the new content of a path while the full cache holds
\* the entry of the path's old mtime.
C26_Witness ==
    /\ Raised(last) /\ last.outcome = "AttributeError"
    /\ Len(cache) = _PARSE_CACHE_MAX
    /\ \E i \in 1..Len(cache) :
         /\ cache[i].key[1] = last.path
         /\ cache[i].key[2] # stat_mtime(fs[last.path])

HasStale(c, path, mtime) ==
    \E i \in 1..Len(c) : c[i].key[1] = path /\ c[i].key[2] # mtime

\* C27: a miss on a path that has a stale entry in the full cache purges
\* that entry and thereby makes room: nothing is evicted for size, every
\* entry of another path stays, and the cache holds 64 entries afterwards.
C27_PurgeMakesRoom ==
    [][(/\ last'.op = "parse" /\ last'.outcome = "miss"
        /\ nCalls' = nCalls + 1
        /\ Len(cache) = _PARSE_CACHE_MAX
        /\ HasStale(cache, last'.path, stat_mtime(fs[last'.path])))
       => (/\ last'.evicted = <<>>
           /\ Len(cache') = _PARSE_CACHE_MAX
           /\ ~HasStale(cache', last'.path, stat_mtime(fs[last'.path]))
           /\ \A i \in 1..Len(cache) :
                cache[i].key[1] # last'.path
                    => cache_has(cache', cache[i].key))]_vars

\* The 65th insertion went into a cache of 64 entries without an eviction.
C27_Witness ==
    /\ last.op = "parse" /\ last.outcome = "miss"
    /\ last.before.parsed /\ last.before.returned
    /\ nInserted = _PARSE_CACHE_MAX + 1
    /\ Len(cache) = _PARSE_CACHE_MAX
    /\ last.evicted = <<>>

-----------------------------------------------------------------------------
(* Properties of concurrent calls (SpecThreads) *)

Running(t) == callers[t].pc \notin {"idle", "returned", "raised"}

\* C11: with the steps of concurrent parse() calls interleaved between the
\* cache operations, the cache never holds more than _PARSE_CACHE_MAX
\* entries, never two entries of one path, and no call fails on a key that
\* another caller's purge or eviction removed.
C11_SafeUnderInterleaving ==
    /\ Len(cache) <= _PARSE_CACHE_MAX
    /\ \A i, j \in 1..Len(cache) : i # j => cache[i].key[1] # cache[j].key[1]
    /\ \A t \in Threads : callers[t].outcome \notin {"KeyError", "StopIteration"}

\* C12: two callers never both normalize the same unchanged, uncached file:
\* of two running calls with the same key, at most one has run a normalizer
\* while the file stayed as it was.
C12_OneNormalizer ==
    \A t, u \in Threads :
        (/\ t # u
         /\ Running(t) /\ Running(u)
         /\ Key(t) = Key(u)
         /\ ~callers[t].changed /\ ~callers[u].changed)
        => ~(callers[t].normalized /\ callers[u].normalized)

-----------------------------------------------------------------------------
(* Properties of the live feed (SpecFeed) *)

\* C28: the events of the 'full' message followed by the events of all
\* 'delta' messages sent so far equal the event list of the most recent
\* parse that produced a message, whatever changes the file went through.
C28_FeedIsLatest ==
    feed.messages > 0 => feed.sent = feed.latest

\* C28 for files that only grow by records sorting after all events present.
C28_FeedIsLatestInOrder ==
    (feed.messages > 0 /\ feed.in_order) => feed.sent = feed.latest

====
